---- MODULE Spec2Model ----
(***************************************************************************)
(* Model of backend/main.py: the identity lifecycle (login, set-password), *)
(* the authorization gate (verify_token, verify_admin_token), the admin    *)
(* operations on users, storage accounts and containers, and the audit     *)
(* log, and the upload of files.  One action per request handler: login,   *)
(* set_password and the admin handlers contain no await, so on the single  *)
(* event loop started by uvicorn.run each of them runs to completion       *)
(* before the next request is served.  upload_file has three awaits and is *)
(* one action per stretch of code between them.                            *)
(***************************************************************************)
EXTENDS Integers, Sequences, FiniteSets, TLC

(* ------------------------------ bounds -------------------------------- *)
\* the clock runs from 0 to MaxTime
MaxTime == 2
\* the audit log holds at most MaxLog entries
MaxLog == 3
\* the users table holds row ids 1..MaxUsers
MaxUsers == 3
\* at most MaxUploads upload requests are in progress at a time
MaxUploads == 2
\* the uploaded_files table holds at most MaxFiles rows
MaxFiles == 2
\* failing requests are counted by the values they draw: a password commit
\* whose audit entry fails needs salts < MaxSalts, an upload that fails before
\* its row is committed, or is cut off by a restart, needs uuids < MaxUuids
MaxSalts == 4
MaxUuids == 2

(* --------------------------- configuration ---------------------------- *)
SECRET_KEY == "SECRET_KEY"
ACCESS_TOKEN_EXPIRE_MINUTES == 1
DEMO_ADMIN_EMAIL == "admin@demo"
DEMO_ADMIN_PASSWORD == "pwA"
DEMO_USER_EMAIL == "user@demo"
DEMO_USER_PASSWORD == "pwB"
DEMO_STORAGE_ACCOUNT_NAME == "demoacct"
DEMO_CONTAINER == "democont"
\* the size ceiling written in upload_file, 100 * 1024 * 1024 bytes, scaled down
UPLOAD_SIZE_LIMIT == 2
\* the values MAX_FILE_SIZE_MB can be given by the environment, in the same
\* unit: below, at and above the ceiling written in upload_file
ConfiguredCeilings == {1, UPLOAD_SIZE_LIMIT, 3}

(* ------------------------------ inputs -------------------------------- *)
None == "None"
Emails == {DEMO_USER_EMAIL, DEMO_ADMIN_EMAIL, "new@demo"}
Passwords == {DEMO_ADMIN_PASSWORD, DEMO_USER_PASSWORD}
\* a password of exactly 72 bytes, and the same 72 bytes followed by one more
Password72 == "pw72"
Password73 == "pw72+x"
LongPasswords == {Password73}
RoleInputs == {"user", "admin", "guest"}
\* generate_readable_password(): Adjective + Noun + 3 digits
TempPasswords == {"SwiftRiver100"}
UserIds == 1..MaxUsers
\* ids: the demo rows' and one str(uuid.uuid4()) per table
AccountIds == {"sa1", "sa2"}
ContainerIds == {"c1", "c2"}
AccountNames == {DEMO_STORAGE_ACCOUNT_NAME, "acct2"}
ContainerNames == {DEMO_CONTAINER, "cont2"}
\* file names, as sequences of characters
FileNames ==
    {<<"x", ".", "c", "s", "v">>, <<"X", ".", "C", "S", "V">>,
     <<"x", ".", "C", "s", "v">>, <<"x", ".", "e", "x", "e">>,
     <<"x", ".", "c", "s", "v", ".", "e", "x", "e">>,
     <<"x", ".", "e", "x", "e", ".", "x", "m", "l">>,
     <<"c", "s", "v">>, <<"x", "c", "s", "v">>, <<".", "c", "s", "v">>,
     <<"x", ".", "c", "s">>, <<"x", ".", "x", "l", "s">>,
     <<"x", ".", "X", "L", "S", "X">>, <<"x", ".", "j", "s", "o", "n">>,
     <<"x", ".", "T", "x", "t">>, <<"x", ".", "x", "l", "s", "x", "x">>,
     <<"x", ".">>, <<>>}
ContentTypes ==
    {"text/csv", "application/json", "text/xml", "application/x-msdownload",
     "TEXT/CSV", ""}
\* the names and types of the uploads that are followed to their end
IngestNames == {<<"x", ".", "c", "s", "v">>, <<"x", ".", "e", "x", "e">>}
IngestTypes == {"text/csv", "application/x-msdownload"}
\* file contents, as sequences of bytes
Contents == {<<0, 0>>, <<0, 0, 0>>}

VARIABLES users, accounts, containers, log, tokens, now, resp, salts,
          files, blobs, uploads, uuids, MAX_FILE_SIZE_MB

dbVars == <<users, accounts, containers, log>>
\* the uploaded_files table, the upload directory, the upload requests
\* suspended at an await, the number of uuid4 values drawn, and the size
\* ceiling read from the environment at import (in the unit of
\* UPLOAD_SIZE_LIMIT)
ingestVars == <<files, blobs, uploads, uuids, MAX_FILE_SIZE_MB>>
vars == <<users, accounts, containers, log, tokens, now, resp, salts,
          files, blobs, uploads, uuids, MAX_FILE_SIZE_MB>>

(* ------------------------- password utilities ------------------------- *)
\* bcrypt works on the first 72 bytes of the password
bcrypt_truncate(password) ==
    IF password = Password73 THEN Password72 ELSE password

\* bcrypt.hashpw(password, salt): the salt in clear, then the digest of the
\* salt and the first 72 bytes of the password
bcrypt_hashpw(password, salt) ==
    [salt |-> salt, digest |-> <<salt, bcrypt_truncate(password)>>]

\* bcrypt.gensalt(): 128 random bits, modelled as a salt never drawn before
\* (salts counts the salts drawn so far)
gensalt(drawn) == drawn + 1

hash_password(password, drawn) == bcrypt_hashpw(password, gensalt(drawn))

\* bcrypt.checkpw: hash the candidate with the stored salt and compare
\* mutant: only the salt part of the recomputed hash is compared
verify_password_salt_only(password, hashed) ==
    bcrypt_hashpw(password, hashed.salt).salt = hashed.salt

verify_password(password, hashed) == bcrypt_hashpw(password, hashed.salt) = hashed

(* --------------------------- JWT utilities ---------------------------- *)
NoToken == [sub |-> None, exp |-> 0, key |-> "absent"]
EmptyToken == [sub |-> None, exp |-> 0, key |-> ""]

create_access_token(data, t) ==
    [sub |-> data.sub, exp |-> t + ACCESS_TOKEN_EXPIRE_MINUTES, key |-> SECRET_KEY]

\* mutant: the signature is verified, the exp claim is not
jwt_decode_signature_only(token, t) == token.key = SECRET_KEY

\* jose.jwt.decode: JWTError on a bad signature, and (jose.jwt._validate_exp)
\* ExpiredSignatureError, a JWTError, exactly when exp < now
jwt_decode_ok(token, t) == token.key = SECRET_KEY /\ ~(token.exp < t)

verify_token(token, t) ==
    IF jwt_decode_ok(token, t)
    THEN IF token.sub = None
         THEN [status |-> 401, detail |-> "Invalid token", email |-> None]
         ELSE [status |-> 200, detail |-> "", email |-> token.sub]
    ELSE [status |-> 401, detail |-> "Invalid token", email |-> None]

\* mutant: the subject must exist, its role is not read
verify_admin_token_any_role(token, t, us) ==
    LET v == verify_token(token, t) IN
    IF v.status # 200 THEN v
    ELSE IF ~(\E u \in us : u.email = v.email)
         THEN [status |-> 403, detail |-> "Admin access required", email |-> None]
         ELSE v

verify_admin_token(token, t, us) ==
    LET v == verify_token(token, t) IN
    IF v.status # 200 THEN v
    ELSE IF ~(\E u \in us : u.email = v.email /\ u.role = "admin")
         THEN [status |-> 403, detail |-> "Admin access required", email |-> None]
         ELSE v

\* tokens nobody was issued: a forged signature, and a signed claim set with no
\* subject (only a holder of SECRET_KEY can make one)
ForgedTokens ==
    {[sub |-> DEMO_ADMIN_EMAIL, exp |-> MaxTime + 1, key |-> "forged"],
     [sub |-> None, exp |-> MaxTime + 1, key |-> SECRET_KEY]}

(* ----------------------------- audit log ------------------------------ *)
\* details is None or a formatted text, kept as the tuple of its parts
NoDetails == <<>>

\* mutant: the new entry is put in front of the existing ones
log_activity_prepend(l, user_email, action, status, details) ==
    <<[user_email |-> user_email, action |-> action,
       status |-> status, details |-> details]>> \o l

log_activity(l, user_email, action, status, details) ==
    Append(l, [user_email |-> user_email, action |-> action,
               status |-> status, details |-> details])

(* ------------------------------- rows --------------------------------- *)
NULL == <<>>

User(id, email, role, password_hash, storage_account, container) ==
    [id |-> id, email |-> email, role |-> role, password_hash |-> password_hash,
     is_active |-> TRUE, is_first_login |-> TRUE,
     storage_account |-> storage_account, container |-> container,
     last_login |-> NULL]

HasEmail(us, email) == \E u \in us : u.email = email
ByEmail(us, email) == CHOOSE u \in us : u.email = email
HasId(us, id) == \E u \in us : u.id = id
ById(us, id) == CHOOSE u \in us : u.id = id

SetMax(S) == CHOOSE x \in S : \A y \in S : y <= x
\* SQLite rowid of an INTEGER PRIMARY KEY: one more than the largest in use
NextUserId(us) == IF us = {} THEN 1 ELSE SetMax({u.id : u \in us}) + 1

Replace(us, old, new) == (us \ {old}) \cup {new}

(* ---------------------------- responses ------------------------------- *)
\* what the caller sees: the status, the error detail (an HTTPException) or the
\* body's access_token, needs_password_setup and email
\* (email: the user of the body, or the identity the route's handler ran as)
Response(status, detail, token, setup, email) ==
    [status |-> status, detail |-> detail, access_token |-> token,
     needs_password_setup |-> setup, email |-> email]

HTTPException(status, detail) == Response(status, detail, NoToken, FALSE, None)

(* -------------------------- upload requests --------------------------- *)
Slots == 1..MaxUploads
\* no request in this slot
Idle == [pc |-> "idle"]

(* ------------------------------ startup ------------------------------- *)
\* init_demo_data on the given tables: returns the tables after its commit
DemoAccounts(as) ==
    IF \E a \in as : a.id = "sa1" THEN as
    ELSE as \cup {[id |-> "sa1", name |-> DEMO_STORAGE_ACCOUNT_NAME, is_active |-> TRUE]}

DemoContainers(cs) ==
    IF \E c \in cs : c.id = "c1" THEN cs
    ELSE cs \cup {[id |-> "c1", name |-> DEMO_CONTAINER, account_id |-> "sa1"]}

\* mutant: the demo user is written again over an existing row
DemoUserReset(us, as, cs, email, role, password, drawn) ==
    IF HasEmail(us, email)
    THEN Replace(us, ByEmail(us, email),
                 User(ByEmail(us, email).id, email, role,
                      hash_password(password, drawn),
                      DEMO_STORAGE_ACCOUNT_NAME, DEMO_CONTAINER))
    ELSE IF (\E c \in cs : c.name = DEMO_CONTAINER)
            /\ (\E a \in as : a.name = DEMO_STORAGE_ACCOUNT_NAME)
         THEN us \cup {User(NextUserId(us), email, role, hash_password(password, drawn),
                            DEMO_STORAGE_ACCOUNT_NAME, DEMO_CONTAINER)}
         ELSE us

DemoUser(us, as, cs, email, role, password, drawn) ==
    IF HasEmail(us, email) THEN us
    ELSE IF (\E c \in cs : c.name = DEMO_CONTAINER)
            /\ (\E a \in as : a.name = DEMO_STORAGE_ACCOUNT_NAME)
         THEN us \cup {User(NextUserId(us), email, role, hash_password(password, drawn),
                            DEMO_STORAGE_ACCOUNT_NAME, DEMO_CONTAINER)}
         ELSE us

init_demo_data(us, as, cs, drawn) ==
    LET as1 == DemoAccounts(as)
        cs1 == DemoContainers(cs)
        us1 == DemoUser(us, as1, cs1, DEMO_USER_EMAIL, "user", DEMO_USER_PASSWORD, drawn)
        d1 == drawn + Cardinality(us1) - Cardinality(us)
        us2 == DemoUser(us1, as1, cs1, DEMO_ADMIN_EMAIL, "admin", DEMO_ADMIN_PASSWORD, d1)
        d2 == d1 + Cardinality(us2) - Cardinality(us1)
    IN [users |-> us2, accounts |-> as1, containers |-> cs1, salts |-> d2]

Init ==
        LET d == init_demo_data({}, {}, {}, 0) IN
        /\ users = d.users
        /\ salts = d.salts
        /\ accounts = d.accounts
        /\ containers = d.containers
        /\ log = <<>>
        /\ tokens = {}
        /\ now = 0
        /\ resp = HTTPException(0, "")
        /\ files = {}
        /\ blobs = {}
        /\ uploads = [slot \in Slots |-> Idle]
        /\ uuids = 0
        /\ MAX_FILE_SIZE_MB = UPLOAD_SIZE_LIMIT

\* startup_event on a restart of the process: init_demo_data on the tables as
\* they are; requests in progress are gone, the upload directory stays.  The
\* flush of a demo account under a name another account holds raises
\* (storage_accounts.name is UNIQUE) and nothing is committed.
Startup ==
    LET d == init_demo_data(users, accounts, containers, salts) IN
    /\ \A u \in d.users : u.id <= MaxUsers
    /\ IF \E a \in d.accounts \ accounts : \E b \in accounts : b.name = a.name
       THEN UNCHANGED <<users, accounts, containers, salts>>
       ELSE /\ users' = d.users
            /\ accounts' = d.accounts
            /\ containers' = d.containers
            /\ salts' = d.salts
    /\ uploads' = [slot \in Slots |-> Idle]
    /\ UNCHANGED <<log, tokens, now, resp, files, blobs, uuids, MAX_FILE_SIZE_MB>>

(* ------------------------------- clock -------------------------------- *)
Tick ==
    /\ now < MaxTime
    /\ now' = now + 1
    /\ UNCHANGED <<users, accounts, containers, log, tokens, resp, salts, ingestVars>>

\* mutant: an unknown email is answered 404, a message of its own
LoginUnknownRevealed(email) ==
    /\ ~HasEmail(users, email)
    /\ resp' = HTTPException(404, "User not found")
    /\ UNCHANGED <<users, accounts, containers, log, tokens, now, salts, ingestVars>>

(* ------------------------- POST /api/auth/login ----------------------- *)
LoginUnknown(email) ==
    /\ ~HasEmail(users, email)
    /\ resp' = HTTPException(401, "Invalid email or password")
    /\ UNCHANGED <<users, accounts, containers, log, tokens, now, salts, ingestVars>>

\* mutant: the inactive branch raises without calling log_activity
LoginInactiveUnaudited(email) ==
    /\ HasEmail(users, email)
    /\ ~ByEmail(users, email).is_active
    /\ resp' = HTTPException(401, "Account is inactive. Please contact an administrator.")
    /\ UNCHANGED <<users, accounts, containers, log, tokens, now, salts, ingestVars>>

LoginInactive(email) ==
    /\ HasEmail(users, email)
    /\ ~ByEmail(users, email).is_active
    /\ Len(log) < MaxLog
    /\ log' = log_activity(log, email, "Login failed", "error", <<"Account is inactive">>)
    /\ resp' = HTTPException(401, "Account is inactive. Please contact an administrator.")
    /\ UNCHANGED <<users, accounts, containers, tokens, now, salts, ingestVars>>

\* mutant: a verified temporary password is treated as a normal login
LoginFirstIssuesToken(email, password) ==
    /\ HasEmail(users, email)
    /\ LET user == ByEmail(users, email)
           access_token == create_access_token([sub |-> user.email], now)
       IN
       /\ user.is_active
       /\ user.is_first_login
       /\ IF ~verify_password(password, user.password_hash)
          THEN /\ resp' = HTTPException(401, "Invalid email or password")
               /\ UNCHANGED <<users, tokens>>
          ELSE /\ users' = Replace(users, user, [user EXCEPT !.last_login = <<now>>])
               /\ tokens' = tokens \cup {access_token}
               /\ resp' = Response(200, "", access_token, TRUE, user.email)
    /\ UNCHANGED <<accounts, containers, log, now, salts, ingestVars>>

LoginFirst(email, password) ==
    /\ HasEmail(users, email)
    /\ LET user == ByEmail(users, email) IN
       /\ user.is_active
       /\ user.is_first_login
       /\ IF ~verify_password(password, user.password_hash)
          THEN resp' = HTTPException(401, "Invalid email or password")
          ELSE resp' = Response(200, "", EmptyToken, TRUE, user.email)
    /\ UNCHANGED <<users, accounts, containers, log, tokens, now, salts, ingestVars>>

\* mutant: last_login is written before the password is verified
LoginBadPasswordTouches(email, password) ==
    /\ HasEmail(users, email)
    /\ LET user == ByEmail(users, email) IN
       /\ user.is_active
       /\ ~user.is_first_login
       /\ ~verify_password(password, user.password_hash)
       /\ Len(log) < MaxLog
       /\ users' = Replace(users, user, [user EXCEPT !.last_login = <<now>>])
       /\ log' = log_activity(log, user.email, "Login failed", "error", <<"Invalid password">>)
       /\ resp' = HTTPException(401, "Invalid email or password")
    /\ UNCHANGED <<accounts, containers, tokens, now, salts, ingestVars>>

LoginBadPassword(email, password) ==
    /\ HasEmail(users, email)
    /\ LET user == ByEmail(users, email) IN
       /\ user.is_active
       /\ ~user.is_first_login
       /\ ~verify_password(password, user.password_hash)
       /\ Len(log) < MaxLog
       /\ log' = log_activity(log, user.email, "Login failed", "error", <<"Invalid password">>)
       /\ resp' = HTTPException(401, "Invalid email or password")
    /\ UNCHANGED <<users, accounts, containers, tokens, now, salts, ingestVars>>

\* mutant: last_login takes a time fixed at import, as the created_at default does
LoginOkStaleTime(email, password) ==
    /\ HasEmail(users, email)
    /\ LET user == ByEmail(users, email)
           access_token == create_access_token([sub |-> user.email], now)
       IN
       /\ user.is_active
       /\ ~user.is_first_login
       /\ verify_password(password, user.password_hash)
       /\ Len(log) < MaxLog
       /\ users' = Replace(users, user, [user EXCEPT !.last_login = <<0>>])
       /\ log' = log_activity(log, user.email, "Login successful", "success", NoDetails)
       /\ tokens' = tokens \cup {access_token}
       /\ resp' = Response(200, "", access_token, FALSE, user.email)
    /\ UNCHANGED <<accounts, containers, now, salts, ingestVars>>

\* mutant: login does not look at is_active before it issues the token
LoginOkUnchecked(email, password) ==
    /\ HasEmail(users, email)
    /\ LET user == ByEmail(users, email)
           access_token == create_access_token([sub |-> user.email], now)
       IN
       /\ ~user.is_first_login
       /\ verify_password(password, user.password_hash)
       /\ Len(log) < MaxLog
       /\ users' = Replace(users, user, [user EXCEPT !.last_login = <<now>>])
       /\ log' = log_activity(log, user.email, "Login successful", "success", NoDetails)
       /\ tokens' = tokens \cup {access_token}
       /\ resp' = Response(200, "", access_token, FALSE, user.email)
    /\ UNCHANGED <<accounts, containers, now, salts, ingestVars>>

LoginOk(email, password) ==
    /\ HasEmail(users, email)
    /\ LET user == ByEmail(users, email)
           access_token == create_access_token([sub |-> user.email], now)
       IN
       /\ user.is_active
       /\ ~user.is_first_login
       /\ verify_password(password, user.password_hash)
       /\ Len(log) < MaxLog
       /\ users' = Replace(users, user, [user EXCEPT !.last_login = <<now>>])
       /\ log' = log_activity(log, user.email, "Login successful", "success", NoDetails)
       /\ tokens' = tokens \cup {access_token}
       /\ resp' = Response(200, "", access_token, FALSE, user.email)
    /\ UNCHANGED <<accounts, containers, now, salts, ingestVars>>

\* bcrypt from version 5.0 on: hashpw and checkpw raise ValueError for a
\* password longer than 72 bytes instead of truncating it; login reaches
\* verify_password after the lookup and the is_active check, the exception
\* is not handled
LoginTooLong(email, password) ==
    /\ password \in LongPasswords
    /\ HasEmail(users, email)
    /\ ByEmail(users, email).is_active
    /\ resp' = HTTPException(500, "Internal Server Error")
    /\ UNCHANGED <<users, accounts, containers, log, tokens, now, salts, ingestVars>>

Login(email, password) ==
    \/ LoginUnknown(email)
    \/ LoginInactive(email)
    \/ LoginFirst(email, password)
    \/ LoginBadPassword(email, password)
    \/ LoginOk(email, password)

(* --------------------- POST /api/auth/set-password -------------------- *)
SetPasswordUnknown(email) ==
    /\ ~HasEmail(users, email)
    /\ resp' = HTTPException(404, "User not found")
    /\ UNCHANGED <<users, accounts, containers, log, tokens, now, salts, ingestVars>>

\* mutant: the hash is replaced only while is_first_login is set
SetPasswordOnce(email, new_password) ==
    /\ HasEmail(users, email)
    /\ Len(log) < MaxLog
    /\ LET user == ByEmail(users, email)
           access_token == create_access_token([sub |-> user.email], now)
       IN
       /\ users' = Replace(users, user,
                       [user EXCEPT !.password_hash =
                                        IF user.is_first_login
                                        THEN hash_password(new_password, salts)
                                        ELSE user.password_hash,
                                    !.is_first_login = FALSE,
                                    !.last_login = <<now>>])
       /\ log' = log_activity(log, user.email, "Password changed", "info", NoDetails)
       /\ tokens' = tokens \cup {access_token}
       /\ resp' = Response(200, "", access_token, FALSE, user.email)
    /\ salts' = gensalt(salts)
    /\ UNCHANGED <<accounts, containers, now, ingestVars>>

\* mutant: last_login is not written
SetPasswordKeepsLastLogin(email, new_password) ==
    /\ HasEmail(users, email)
    /\ Len(log) < MaxLog
    /\ LET user == ByEmail(users, email)
           access_token == create_access_token([sub |-> user.email], now)
       IN
       /\ users' = Replace(users, user,
                       [user EXCEPT !.password_hash = hash_password(new_password, salts),
                                    !.is_first_login = FALSE])
       /\ log' = log_activity(log, user.email, "Password changed", "info", NoDetails)
       /\ tokens' = tokens \cup {access_token}
       /\ resp' = Response(200, "", access_token, FALSE, user.email)
    /\ salts' = gensalt(salts)
    /\ UNCHANGED <<accounts, containers, now, ingestVars>>

SetPasswordOk(email, new_password) ==
    /\ HasEmail(users, email)
    /\ Len(log) < MaxLog
    /\ LET user == ByEmail(users, email)
           access_token == create_access_token([sub |-> user.email], now)
       IN
       /\ users' = Replace(users, user,
                       [user EXCEPT !.password_hash = hash_password(new_password, salts),
                                    !.is_first_login = FALSE,
                                    !.last_login = <<now>>])
       /\ log' = log_activity(log, user.email, "Password changed", "info", NoDetails)
       /\ tokens' = tokens \cup {access_token}
       /\ resp' = Response(200, "", access_token, FALSE, user.email)
    /\ salts' = gensalt(salts)
    /\ UNCHANGED <<accounts, containers, now, ingestVars>>

SetPassword(email, new_password) ==
    \/ SetPasswordUnknown(email)
    \/ SetPasswordOk(email, new_password)

(* ------------------------ authorization gate -------------------------- *)
Presented == tokens \cup ForgedTokens

\* an HTTPException (or an unhandled error) ends the request: nothing is written
Fail(status, detail) ==
    /\ resp' = HTTPException(status, detail)
    /\ UNCHANGED <<users, accounts, containers, log, tokens, now, salts, ingestVars>>

\* Depends(verify_token) raised: the route's handler is never entered
TokenDenied(t) ==
    /\ verify_token(t, now).status # 200
    /\ Fail(verify_token(t, now).status, verify_token(t, now).detail)

\* Depends(verify_admin_token) raised, on any of the admin routes: the route's
\* handler is never entered
AdminDenied(t) ==
    /\ verify_admin_token(t, now, users).status # 200
    /\ Fail(verify_admin_token(t, now, users).status,
            verify_admin_token(t, now, users).detail)

\* Depends(verify_admin_token) returned: the admin_email handed to the handler
Admitted(t) == verify_admin_token(t, now, users).status = 200
admin_email(t) == verify_admin_token(t, now, users).email

\* GET /api/files, a read-only route behind Depends(verify_token): the handler
\* runs as the token's subject (resp.email) and looks no user up
ListFiles(t) ==
    /\ verify_token(t, now).status = 200
    /\ resp' = Response(200, "", NoToken, FALSE, verify_token(t, now).email)
    /\ UNCHANGED <<users, accounts, containers, log, tokens, now, salts, ingestVars>>

\* GET /api/admin/stats, a read-only route behind Depends(verify_admin_token)
GetAdminStats(t) ==
    /\ Admitted(t)
    /\ resp' = Response(200, "", NoToken, FALSE, admin_email(t))
    /\ UNCHANGED <<users, accounts, containers, log, tokens, now, salts, ingestVars>>

(* --------------------------- POST /api/upload ------------------------- *)
UPLOAD_DIR == "uploads/"

allowed_types ==
    {"text/csv", "application/json", "text/plain", "application/vnd.ms-excel",
     "application/vnd.openxmlformats-officedocument.spreadsheetml.sheet",
     "application/xml", "text/xml"}
allowed_extensions ==
    {<<".", "c", "s", "v">>, <<".", "j", "s", "o", "n">>, <<".", "t", "x", "t">>,
     <<".", "x", "l", "s", "x">>, <<".", "x", "l", "s">>, <<".", "x", "m", "l">>}

\* str.lower() on the letters that occur in the file names
UpperCase == <<"C", "E", "J", "L", "M", "N", "O", "S", "T", "V", "X">>
LowerCase == <<"c", "e", "j", "l", "m", "n", "o", "s", "t", "v", "x">>
lower_char(c) ==
    IF \E i \in 1..Len(UpperCase) : UpperCase[i] = c
    THEN LowerCase[CHOOSE i \in 1..Len(UpperCase) : UpperCase[i] = c]
    ELSE c
lower(name) == [i \in 1..Len(name) |-> lower_char(name[i])]

\* str.endswith
endswith(name, ext) ==
    /\ Len(name) >= Len(ext)
    /\ SubSeq(name, Len(name) - Len(ext) + 1, Len(name)) = ext

\* mutant: the extension is compared without lowering the file name
type_check_case_sensitive(content_type, filename) ==
    ~(/\ content_type \notin allowed_types
      /\ ~\E ext \in allowed_extensions : endswith(filename, ext))

\* the condition under which upload_file does not raise at the type check
type_check(content_type, filename) ==
    ~(/\ content_type \notin allowed_types
      /\ ~\E ext \in allowed_extensions : endswith(lower(filename), ext))

\* the condition under which upload_file does not raise at the size check
size_check(content) == ~(Len(content) > UPLOAD_SIZE_LIMIT)

\* str(uuid.uuid4()): 122 random bits, modelled as a value never drawn before
\* (drawn counts the values drawn so far)
uuid4(drawn) == "uuid-" \o ToString(drawn + 1)

\* pathlib.PurePath.suffix of a name without directory part: from the last
\* dot on, unless that dot is the first or the last character
rfind(name, c) ==
    IF \E i \in 1..Len(name) : name[i] = c
    THEN SetMax({i \in 1..Len(name) : name[i] = c})
    ELSE 0
suffix(name) ==
    IF 1 < rfind(name, ".") /\ rfind(name, ".") < Len(name)
    THEN SubSeq(name, rfind(name, "."), Len(name))
    ELSE <<>>

\* mutant: the blob is stored under the client's file name
stored_filename_of_client(file_id, client_filename) == client_filename

\* filename = f"{file_id}{file_extension}"
stored_filename(file_id, client_filename) == <<file_id>> \o suffix(client_filename)

UploadedFile(id, filename, original_filename, file_size, content_type, user_email) ==
    [id |-> id, filename |-> filename, original_filename |-> original_filename,
     file_size |-> file_size, content_type |-> content_type,
     file_path |-> <<UPLOAD_DIR>> \o filename, user_email |-> user_email,
     status |-> "success"]

FileUploadResponse(id, filename, size, content_type) ==
    [status |-> 200, detail |-> "", access_token |-> NoToken,
     needs_password_setup |-> FALSE, email |-> None,
     id |-> id, filename |-> filename, size |-> size,
     content_type |-> content_type, url |-> <<"/api/files/", id>>]

\* open(file_path, "wb"): the file exists and is empty
open_wb(bs, name) ==
    {b \in bs : b.name # name} \cup {[name |-> name, content |-> <<>>]}
\* f.write(content) on the file opened under this name
write(bs, name, content) ==
    {b \in bs : b.name # name} \cup {[name |-> name, content |-> content]}

InProgress == {slot \in Slots : uploads[slot].pc # "idle"}
TypeRefusal ==
    "File type not allowed. Please upload structured data files (CSV, JSON, TXT, Excel, XML)"
SizeRefusal == "File size exceeds 100MB limit"

\* the request arrives with a verifying token: type check, then the handler
\* is suspended at await file.read()
UploadBegin(slot, t, filename, content_type, content) ==
    /\ verify_token(t, now).status = 200
    /\ uploads[slot].pc = "idle"
    /\ \A other \in Slots : other < slot => uploads[other].pc # "idle"
    /\ Cardinality(files) + Cardinality(InProgress) < MaxFiles
    /\ IF ~type_check(content_type, filename)
       THEN Fail(400, TypeRefusal)
       ELSE /\ uploads' = [uploads EXCEPT ![slot] =
                              [pc |-> "read", email |-> verify_token(t, now).email,
                               filename |-> filename, content_type |-> content_type,
                               content |-> content]]
            /\ UNCHANGED <<users, accounts, containers, log, tokens, now, resp, salts,
                           files, blobs, uuids, MAX_FILE_SIZE_MB>>

\* mutant: the file is opened before the size is looked at
UploadReadOpensFirst(slot) ==
    /\ uploads[slot].pc = "read"
    /\ LET u == uploads[slot]
           file_id == uuid4(uuids)
           filename == stored_filename(file_id, u.filename)
       IN
       /\ uuids' = uuids + 1
       /\ blobs' = open_wb(blobs, filename)
       /\ IF ~size_check(u.content)
          THEN /\ resp' = HTTPException(400, SizeRefusal)
               /\ uploads' = [uploads EXCEPT ![slot] = Idle]
          ELSE /\ uploads' = [uploads EXCEPT ![slot] =
                                 [pc |-> "opened", email |-> u.email,
                                  filename |-> u.filename,
                                  content_type |-> u.content_type,
                                  content |-> u.content, file_id |-> file_id,
                                  stored |-> filename]]
               /\ UNCHANGED resp
    /\ UNCHANGED <<users, accounts, containers, log, tokens, now, salts, files, MAX_FILE_SIZE_MB>>

\* the content is read: size check, id and stored name, then the handler is
\* suspended at aiofiles.open, which creates the file
UploadRead(slot) ==
    /\ uploads[slot].pc = "read"
    /\ LET u == uploads[slot]
           file_id == uuid4(uuids)
           filename == stored_filename(file_id, u.filename)
       IN
       IF ~size_check(u.content)
       THEN /\ resp' = HTTPException(400, SizeRefusal)
            /\ uploads' = [uploads EXCEPT ![slot] = Idle]
            /\ UNCHANGED <<users, accounts, containers, log, tokens, now, salts,
                           files, blobs, uuids, MAX_FILE_SIZE_MB>>
       ELSE /\ uuids' = uuids + 1
            /\ blobs' = open_wb(blobs, filename)
            /\ uploads' = [uploads EXCEPT ![slot] =
                              [pc |-> "opened", email |-> u.email,
                               filename |-> u.filename,
                               content_type |-> u.content_type,
                               content |-> u.content, file_id |-> file_id,
                               stored |-> filename]]
            /\ UNCHANGED <<users, accounts, containers, log, tokens, now, resp,
                           salts, files, MAX_FILE_SIZE_MB>>

\* mutant: the handler goes on to the row before the content is in the file
UploadWriteUnflushed(slot) ==
    /\ uploads[slot].pc = "opened"
    /\ uploads' = [uploads EXCEPT ![slot].pc = "written"]
    /\ UNCHANGED <<users, accounts, containers, log, tokens, now, resp, salts,
                   files, blobs, uuids, MAX_FILE_SIZE_MB>>

\* the file is open: the handler is suspended at await f.write(content)
UploadWrite(slot) ==
    /\ uploads[slot].pc = "opened"
    /\ blobs' = write(blobs, uploads[slot].stored, uploads[slot].content)
    /\ uploads' = [uploads EXCEPT ![slot].pc = "written"]
    /\ UNCHANGED <<users, accounts, containers, log, tokens, now, resp, salts,
                   files, uuids, MAX_FILE_SIZE_MB>>

\* mutant: the row records the declared type as text/plain
UploadCommitRetyped(slot) ==
    /\ uploads[slot].pc = "written"
    /\ LET u == uploads[slot]
           uploaded_file == UploadedFile(u.file_id, u.stored, u.filename,
                                         Len(u.content), "text/plain", u.email)
       IN
       /\ files' = files \cup {uploaded_file}
       /\ log' = log_activity(log, u.email, "File uploaded", "success",
                              <<"Uploaded", u.filename,
                                ToString(Len(u.content)), "bytes">>)
       /\ resp' = FileUploadResponse(u.file_id, u.filename, Len(u.content),
                                     u.content_type)
       /\ uploads' = [uploads EXCEPT ![slot] = Idle]
    /\ UNCHANGED <<users, accounts, containers, tokens, now, salts, blobs, uuids, MAX_FILE_SIZE_MB>>

\* the file is written and closed: the row is committed (uploaded_files.id is
\* the primary key), the audit entry is committed, the descriptor is returned
UploadCommit(slot) ==
    /\ uploads[slot].pc = "written"
    /\ LET u == uploads[slot]
           uploaded_file == UploadedFile(u.file_id, u.stored, u.filename,
                                         Len(u.content), u.content_type, u.email)
       IN
       IF \E f \in files : f.id = u.file_id
       THEN /\ resp' = HTTPException(500, "Internal Server Error")
            /\ uploads' = [uploads EXCEPT ![slot] = Idle]
            /\ UNCHANGED <<users, accounts, containers, log, tokens, now, salts,
                           files, blobs, uuids, MAX_FILE_SIZE_MB>>
       ELSE /\ files' = files \cup {uploaded_file}
            /\ log' = log_activity(log, u.email, "File uploaded", "success",
                                   <<"Uploaded", u.filename,
                                     ToString(Len(u.content)), "bytes">>)
            /\ resp' = FileUploadResponse(u.file_id, u.filename, Len(u.content),
                                          u.content_type)
            /\ uploads' = [uploads EXCEPT ![slot] = Idle]
            /\ UNCHANGED <<users, accounts, containers, tokens, now, salts,
                           blobs, uuids, MAX_FILE_SIZE_MB>>

(* ------------------------------ admin API ----------------------------- *)
HasContainer(id) == \E c \in containers : c.id = id
ContainerById(id) == CHOOSE c \in containers : c.id = id
HasAccount(id) == \E a \in accounts : a.id = id
AccountById(id) == CHOOSE a \in accounts : a.id = id

\* POST /api/admin/users
CreateUser(t, email, container_id) ==
    /\ Admitted(t)
    /\ IF HasEmail(users, email)
       THEN Fail(400, "User with this email already exists")
       ELSE IF ~HasContainer(container_id) THEN Fail(404, "Container not found")
       ELSE IF ~HasAccount(ContainerById(container_id).account_id)
       THEN Fail(404, "Storage account not found")
       ELSE \E role \in RoleInputs, temp_password \in TempPasswords :
            LET container == ContainerById(container_id)
                storage_account == AccountById(container.account_id)
                new_user == User(NextUserId(users), email, role,
                                 hash_password(temp_password, salts),
                                 storage_account.name, container.name)
            IN
            /\ new_user.id <= MaxUsers
            /\ Len(log) < MaxLog
            /\ users' = users \cup {new_user}
            /\ log' = log_activity(log, admin_email(t), "User created", "info",
                                   <<"Created user", email>>)
            /\ resp' = Response(200, "", NoToken, FALSE, new_user.email)
            /\ salts' = gensalt(salts)
            /\ UNCHANGED <<accounts, containers, tokens, now, ingestVars>>

\* mutant: users.email without the UNIQUE constraint
UpdateUserNoUnique(t, user_id, container_id) ==
    /\ Admitted(t)
    /\ IF ~HasId(users, user_id) THEN Fail(404, "User not found")
       ELSE IF ~HasContainer(container_id) THEN Fail(404, "Container not found")
       ELSE IF ~HasAccount(ContainerById(container_id).account_id)
       THEN Fail(404, "Storage account not found")
       ELSE \E email \in Emails, role \in RoleInputs, is_active \in BOOLEAN :
            LET user == ById(users, user_id)
                container == ContainerById(container_id)
                storage_account == AccountById(container.account_id)
                updated == [user EXCEPT !.email = email, !.role = role,
                                        !.storage_account = storage_account.name,
                                        !.container = container.name,
                                        !.is_active = is_active]
            IN
            /\ Len(log) < MaxLog
            /\ users' = Replace(users, user, updated)
            /\ log' = log_activity(log, admin_email(t), "User updated", "info",
                                   <<"Updated user", email>>)
            /\ resp' = Response(200, "", NoToken, FALSE, updated.email)
            /\ UNCHANGED <<accounts, containers, tokens, now, salts, ingestVars>>

\* PUT /api/admin/users/{user_id}
UpdateUser(t, user_id, container_id) ==
    /\ Admitted(t)
    /\ IF ~HasId(users, user_id) THEN Fail(404, "User not found")
       ELSE IF ~HasContainer(container_id) THEN Fail(404, "Container not found")
       ELSE IF ~HasAccount(ContainerById(container_id).account_id)
       THEN Fail(404, "Storage account not found")
       ELSE \E email \in Emails, role \in RoleInputs, is_active \in BOOLEAN :
            LET user == ById(users, user_id)
                container == ContainerById(container_id)
                storage_account == AccountById(container.account_id)
                updated == [user EXCEPT !.email = email, !.role = role,
                                        !.storage_account = storage_account.name,
                                        !.container = container.name,
                                        !.is_active = is_active]
            IN
            \* users.email is UNIQUE: the commit raises IntegrityError, unhandled
            IF \E u \in users : u.id # user_id /\ u.email = email
            THEN Fail(500, "Internal Server Error")
            ELSE /\ Len(log) < MaxLog
                 /\ users' = Replace(users, user, updated)
                 /\ log' = log_activity(log, admin_email(t), "User updated", "info",
                                        <<"Updated user", email>>)
                 /\ resp' = Response(200, "", NoToken, FALSE, updated.email)
                 /\ UNCHANGED <<accounts, containers, tokens, now, salts, ingestVars>>

\* DELETE /api/admin/users/{user_id}
DeleteUser(t, user_id) ==
    /\ Admitted(t)
    /\ IF ~HasId(users, user_id) THEN Fail(404, "User not found")
       ELSE IF ById(users, user_id).role = "admin"
       THEN Fail(400, "Cannot delete admin users")
       ELSE LET user == ById(users, user_id) IN
            /\ Len(log) < MaxLog
            /\ users' = users \ {user}
            /\ log' = log_activity(log, admin_email(t), "User deleted", "info",
                                   <<"Deleted user", user.email>>)
            /\ resp' = Response(200, "User deleted successfully", NoToken, FALSE, None)
            /\ UNCHANGED <<accounts, containers, tokens, now, salts, ingestVars>>

\* mutant: the route depends on verify_token, not on verify_admin_token
ToggleUserStatusAnyCaller(t, user_id) ==
    /\ verify_token(t, now).status = 200
    /\ IF ~HasId(users, user_id) THEN Fail(404, "User not found")
       ELSE LET user == ById(users, user_id)
                toggled == [user EXCEPT !.is_active = ~user.is_active]
                status == IF toggled.is_active THEN "activated" ELSE "deactivated"
            IN
            /\ Len(log) < MaxLog
            /\ users' = Replace(users, user, toggled)
            /\ log' = log_activity(log, verify_token(t, now).email, "User " \o status,
                                   "info", <<status, "user", user.email>>)
            /\ resp' = Response(200, "", NoToken, FALSE, user.email)
            /\ UNCHANGED <<accounts, containers, tokens, now, salts, ingestVars>>

\* mutant: the flag is written from a value read before another toggle of the
\* same user was committed (here: the value at creation)
ToggleUserStatusStale(t, user_id) ==
    /\ Admitted(t)
    /\ IF ~HasId(users, user_id) THEN Fail(404, "User not found")
       ELSE LET user == ById(users, user_id)
                toggled == [user EXCEPT !.is_active = FALSE]
                status == IF toggled.is_active THEN "activated" ELSE "deactivated"
            IN
            /\ Len(log) < MaxLog
            /\ users' = Replace(users, user, toggled)
            /\ log' = log_activity(log, admin_email(t), "User " \o status, "info",
                                   <<status, "user", user.email>>)
            /\ resp' = Response(200, "", NoToken, FALSE, user.email)
            /\ UNCHANGED <<accounts, containers, tokens, now, salts, ingestVars>>

\* PATCH /api/admin/users/{user_id}/toggle
ToggleUserStatus(t, user_id) ==
    /\ Admitted(t)
    /\ IF ~HasId(users, user_id) THEN Fail(404, "User not found")
       ELSE LET user == ById(users, user_id)
                toggled == [user EXCEPT !.is_active = ~user.is_active]
                status == IF toggled.is_active THEN "activated" ELSE "deactivated"
            IN
            /\ Len(log) < MaxLog
            /\ users' = Replace(users, user, toggled)
            /\ log' = log_activity(log, admin_email(t), "User " \o status, "info",
                                   <<status, "user", user.email>>)
            /\ resp' = Response(200, "", NoToken, FALSE, user.email)
            /\ UNCHANGED <<accounts, containers, tokens, now, salts, ingestVars>>

(* ----------------------- storage account management ------------------- *)
\* POST /api/admin/storage-accounts
CreateStorageAccount(t, name, account_id) ==
    /\ Admitted(t)
    /\ IF \E a \in accounts : a.name = name
       THEN Fail(400, "Storage account with this name already exists")
       ELSE /\ ~HasAccount(account_id)
            /\ Len(log) < MaxLog
            /\ accounts' = accounts \cup
                   {[id |-> account_id, name |-> name, is_active |-> TRUE]}
            /\ log' = log_activity(log, admin_email(t), "Storage account created",
                                   "info", <<"Created storage account", name>>)
            /\ resp' = Response(200, "", NoToken, FALSE, None)
            /\ UNCHANGED <<users, containers, tokens, now, salts, ingestVars>>

\* PUT /api/admin/storage-accounts/{account_id}
UpdateStorageAccount(t, account_id, name, is_active) ==
    /\ Admitted(t)
    /\ IF ~HasAccount(account_id) THEN Fail(404, "Storage account not found")
       \* storage_accounts.name is UNIQUE: the commit raises IntegrityError
       ELSE IF \E a \in accounts : a.id # account_id /\ a.name = name
       THEN Fail(500, "Internal Server Error")
       ELSE LET account == AccountById(account_id) IN
            /\ Len(log) < MaxLog
            /\ accounts' = Replace(accounts, account,
                               [account EXCEPT !.name = name, !.is_active = is_active])
            /\ log' = log_activity(log, admin_email(t), "Storage account updated",
                                   "info", <<"Updated storage account", name>>)
            /\ resp' = Response(200, "", NoToken, FALSE, None)
            /\ UNCHANGED <<users, containers, tokens, now, salts, ingestVars>>

\* DELETE /api/admin/storage-accounts/{account_id}
DeleteStorageAccount(t, account_id) ==
    /\ Admitted(t)
    /\ IF ~HasAccount(account_id) THEN Fail(404, "Storage account not found")
       ELSE IF \E u \in users : u.storage_account = AccountById(account_id).name
       THEN Fail(400, "Cannot delete storage account. Users are still using it.")
       ELSE LET account == AccountById(account_id) IN
            /\ Len(log) < MaxLog
            /\ containers' = {c \in containers : c.account_id # account_id}
            /\ accounts' = accounts \ {account}
            /\ log' = log_activity(log, admin_email(t), "Storage account deleted",
                                   "info", <<"Deleted storage account", account.name>>)
            /\ resp' = Response(200, "Storage account deleted successfully",
                                NoToken, FALSE, None)
            /\ UNCHANGED <<users, tokens, now, salts, ingestVars>>

\* POST /api/admin/containers
CreateContainer(t, name, account_id, container_id) ==
    /\ Admitted(t)
    /\ IF ~HasAccount(account_id) THEN Fail(404, "Storage account not found")
       ELSE IF \E c \in containers : c.name = name /\ c.account_id = account_id
       THEN Fail(400, "Container with this name already exists in this account")
       ELSE /\ ~HasContainer(container_id)
            /\ Len(log) < MaxLog
            /\ containers' = containers \cup
                   {[id |-> container_id, name |-> name, account_id |-> account_id]}
            /\ log' = log_activity(log, admin_email(t), "Container created", "info",
                                   <<"Created container", name>>)
            /\ resp' = Response(200, "", NoToken, FALSE, None)
            /\ UNCHANGED <<users, accounts, tokens, now, salts, ingestVars>>

\* DELETE /api/admin/containers/{container_id}
DeleteContainer(t, container_id) ==
    /\ Admitted(t)
    /\ IF ~HasContainer(container_id) THEN Fail(404, "Container not found")
       ELSE IF \E u \in users : u.container = ContainerById(container_id).name
       THEN Fail(400, "Cannot delete container. Users are still using it.")
       ELSE LET container == ContainerById(container_id) IN
            /\ Len(log) < MaxLog
            /\ containers' = containers \ {container}
            /\ log' = log_activity(log, admin_email(t), "Container deleted", "info",
                                   <<"Deleted container", container.name>>)
            /\ resp' = Response(200, "Container deleted successfully",
                                NoToken, FALSE, None)
            /\ UNCHANGED <<users, accounts, tokens, now, salts, ingestVars>>

(* -------------------- failures of the storage layer ------------------- *)
\* db.commit() or a file write raises (database locked, disk full, I/O
\* error): no handler catches it, get_db closes the session, the caller gets
\* 500.  What was committed before the failing call stays committed.

\* login: the last_login commit succeeded, the commit in log_activity raises
LoginAuditFailure(email, password) ==
    /\ HasEmail(users, email)
    /\ LET user == ByEmail(users, email) IN
       /\ user.is_active
       /\ ~user.is_first_login
       /\ verify_password(password, user.password_hash)
       /\ users' = Replace(users, user, [user EXCEPT !.last_login = <<now>>])
       /\ resp' = HTTPException(500, "Internal Server Error")
    /\ UNCHANGED <<accounts, containers, log, tokens, now, salts, ingestVars>>

\* set_password: the password commit succeeded, the commit in log_activity
\* raises
SetPasswordAuditFailure(email, new_password) ==
    /\ HasEmail(users, email)
    /\ salts < MaxSalts
    /\ LET user == ByEmail(users, email) IN
       /\ users' = Replace(users, user,
                       [user EXCEPT !.password_hash = hash_password(new_password, salts),
                                    !.is_first_login = FALSE,
                                    !.last_login = <<now>>])
       /\ resp' = HTTPException(500, "Internal Server Error")
    /\ salts' = gensalt(salts)
    /\ UNCHANGED <<accounts, containers, log, tokens, now, ingestVars>>

\* upload_file: await f.write(content) raises, the created file stays
UploadWriteFailure(slot) ==
    /\ uploads[slot].pc = "opened"
    /\ uuids < MaxUuids
    /\ resp' = HTTPException(500, "Internal Server Error")
    /\ uploads' = [uploads EXCEPT ![slot] = Idle]
    /\ UNCHANGED <<users, accounts, containers, log, tokens, now, salts,
                   files, blobs, uuids, MAX_FILE_SIZE_MB>>

\* upload_file: the file is written, the commit of the row raises
UploadCommitFailure(slot) ==
    /\ uploads[slot].pc = "written"
    /\ uuids < MaxUuids
    /\ resp' = HTTPException(500, "Internal Server Error")
    /\ uploads' = [uploads EXCEPT ![slot] = Idle]
    /\ UNCHANGED <<users, accounts, containers, log, tokens, now, salts,
                   files, blobs, uuids, MAX_FILE_SIZE_MB>>

\* upload_file: the row commit succeeded, the commit in log_activity raises
UploadAuditFailure(slot) ==
    /\ uploads[slot].pc = "written"
    /\ LET u == uploads[slot]
           uploaded_file == UploadedFile(u.file_id, u.stored, u.filename,
                                         Len(u.content), u.content_type, u.email)
       IN
       /\ ~\E f \in files : f.id = u.file_id
       /\ files' = files \cup {uploaded_file}
       /\ resp' = HTTPException(500, "Internal Server Error")
       /\ uploads' = [uploads EXCEPT ![slot] = Idle]
    /\ UNCHANGED <<users, accounts, containers, log, tokens, now, salts,
                   blobs, uuids, MAX_FILE_SIZE_MB>>

Next ==
    \/ Tick
    \/ \E e \in Emails, p \in Passwords : Login(e, p)
    \/ \E e \in Emails, p \in Passwords : SetPassword(e, p)
    \/ \E t \in Presented : TokenDenied(t)
    \/ \E t \in Presented : ListFiles(t)
    \/ \E t \in Presented : AdminDenied(t)
    \/ \E t \in Presented : GetAdminStats(t)
    \/ \E t \in Presented, e \in Emails, c \in ContainerIds : CreateUser(t, e, c)
    \/ \E t \in Presented, id \in UserIds, c \in ContainerIds : UpdateUser(t, id, c)
    \/ \E t \in Presented, id \in UserIds : DeleteUser(t, id)
    \/ \E t \in Presented, id \in UserIds : ToggleUserStatus(t, id)

\* the identity lifecycle, the gate and the admin operations on users
Spec == Init /\ [][Next]_vars

StorageNext ==
    \/ \E t \in Presented, n \in AccountNames, id \in AccountIds :
          CreateStorageAccount(t, n, id)
    \/ \E t \in Presented, id \in AccountIds, n \in AccountNames, a \in BOOLEAN :
          UpdateStorageAccount(t, id, n, a)
    \/ \E t \in Presented, id \in AccountIds : DeleteStorageAccount(t, id)
    \/ \E t \in Presented, n \in ContainerNames, a \in AccountIds, id \in ContainerIds :
          CreateContainer(t, n, a, id)
    \/ \E t \in Presented, id \in ContainerIds : DeleteContainer(t, id)

NextAdmin ==
    \/ Tick
    \/ \E e \in Emails, p \in Passwords : SetPassword(e, p)
    \/ \E t \in Presented : AdminDenied(t)
    \/ \E t \in Presented : GetAdminStats(t)
    \/ \E t \in Presented, e \in Emails, c \in ContainerIds : CreateUser(t, e, c)
    \/ \E t \in Presented, id \in UserIds, c \in ContainerIds : UpdateUser(t, id, c)
    \/ \E t \in Presented, id \in UserIds : DeleteUser(t, id)
    \/ \E t \in Presented, id \in UserIds : ToggleUserStatus(t, id)
    \/ StorageNext

\* token issuance, the clock and every route behind the admin gate, the
\* operations on storage accounts and containers included
SpecAdmin == Init /\ [][NextAdmin]_vars

NextRestart ==
    \/ Tick
    \/ \E e \in Emails, p \in Passwords : Login(e, p)
    \/ \E e \in Emails, p \in Passwords : SetPassword(e, p)
    \/ \E t \in Presented, e \in Emails, c \in ContainerIds : CreateUser(t, e, c)
    \/ \E t \in Presented, id \in UserIds, c \in ContainerIds : UpdateUser(t, id, c)
    \/ \E t \in Presented, id \in UserIds : DeleteUser(t, id)
    \/ \E t \in Presented, id \in UserIds : ToggleUserStatus(t, id)
    \/ Startup

NextIngest ==
    \/ \E e \in Emails : SetPassword(e, DEMO_USER_PASSWORD)
    \/ \E t \in Presented : TokenDenied(t)
    \/ \E slot \in Slots, t \in Presented, n \in IngestNames, c \in IngestTypes,
          b \in Contents : UploadBegin(slot, t, n, c, b)
    \/ \E slot \in Slots : UploadRead(slot)
    \/ \E slot \in Slots : UploadWrite(slot)
    \/ \E slot \in Slots : UploadCommit(slot)

\* token issuance and upload requests, interleaved at their awaits
SpecIngest == Init /\ [][NextIngest]_vars

\* the state after construction under any configured size ceiling
InitConfigured ==
        LET d == init_demo_data({}, {}, {}, 0) IN
        /\ users = d.users
        /\ salts = d.salts
        /\ accounts = d.accounts
        /\ containers = d.containers
        /\ log = <<>>
        /\ tokens = {}
        /\ now = 0
        /\ resp = HTTPException(0, "")
        /\ files = {}
        /\ blobs = {}
        /\ uploads = [slot \in Slots |-> Idle]
        /\ uuids = 0
        /\ MAX_FILE_SIZE_MB \in ConfiguredCeilings

\* the upload requests of SpecIngest in a deployment with any configuration
SpecConfigured == InitConfigured /\ [][NextIngest]_vars

NextTypeCheck ==
    \/ \E e \in Emails : SetPassword(e, DEMO_USER_PASSWORD)
    \/ \E t \in Presented, n \in FileNames, c \in ContentTypes :
          UploadBegin(1, t, n, c, <<0, 0>>)

\* the type check of upload_file on a range of names and declared types
SpecTypeCheck == Init /\ [][NextTypeCheck]_vars

\* the life of the user records across restarts of the process: the identity
\* operations, the admitted admin operations on users, and startup
SpecRestart == Init /\ [][NextRestart]_vars

NextFaults ==
    \/ \E e \in Emails : SetPassword(e, DEMO_USER_PASSWORD)
    \/ \E e \in Emails : LoginOk(e, DEMO_USER_PASSWORD)
    \/ \E e \in Emails : SetPasswordAuditFailure(e, DEMO_USER_PASSWORD)
    \/ \E e \in Emails : LoginAuditFailure(e, DEMO_USER_PASSWORD)
    \/ \E slot \in Slots, t \in Presented :
          UploadBegin(slot, t, <<"x", ".", "c", "s", "v">>, "text/csv", <<0, 0>>)
    \/ \E slot \in Slots : UploadRead(slot)
    \/ \E slot \in Slots : UploadWrite(slot)
    \/ \E slot \in Slots : UploadCommit(slot)
    \/ \E slot \in Slots : UploadWriteFailure(slot)
    \/ \E slot \in Slots : UploadCommitFailure(slot)
    \/ \E slot \in Slots : UploadAuditFailure(slot)
    \/ uuids < MaxUuids /\ Startup

\* login, set_password and upload requests with failing commits and writes,
\* and restarts of the process
SpecFaults == Init /\ [][NextFaults]_vars

\* the passwords given to set_password and to login in SpecRoundTrip
SetPasswords == {DEMO_USER_PASSWORD, Password72}
LoginPasswords == Passwords \cup {Password72} \cup LongPasswords

NextRoundTrip ==
    \/ \E e \in Emails, p \in SetPasswords : SetPassword(e, p)
    \/ \E e \in Emails, q \in LoginPasswords : Login(e, q)
    \/ \E e \in Emails, q \in LoginPasswords : LoginTooLong(e, q)
    \/ \E t \in Presented, id \in UserIds : ToggleUserStatus(t, id)

\* set_password and login with passwords up to and beyond 72 bytes, under
\* either behaviour of the bcrypt library, and deactivation in between
SpecRoundTrip == Init /\ [][NextRoundTrip]_vars

NextToggle ==
    \/ Tick
    \/ \E e \in Emails : SetPassword(e, DEMO_USER_PASSWORD)
    \/ \E t \in Presented : AdminDenied(t)
    \/ \E t \in Presented, id \in UserIds : ToggleUserStatus(t, id)

\* toggle_user_status calls of any admitted caller on any user, and nothing
\* else that writes is_active
SpecToggle == Init /\ [][NextToggle]_vars

(* ============================== claims =============================== *)
Last(l) == l[Len(l)]
AppendsOne == Len(log') = Len(log) + 1 /\ SubSeq(log', 1, Len(log)) = log
InactiveEntry(e) ==
    [user_email |-> e, action |-> "Login failed", status |-> "error",
     details |-> <<"Account is inactive">>]
WrongPasswordEntry(e) ==
    [user_email |-> e, action |-> "Login failed", status |-> "error",
     details |-> <<"Invalid password">>]
InactiveDetail == "Account is inactive. Please contact an administrator."

\* C1: no step issues a bearer token whose subject is a user that is inactive
\* when the call is made (Login, SetPassword or any other operation).
C1_NoTokenForInactive ==
    [][\A u \in users :
         (log' # log /\ resp'.access_token.key = SECRET_KEY
                     /\ resp'.access_token.sub = u.email) => u.is_active]_vars

\* C2: a Login for an existing inactive user, with any password, answers 401
\* with no token and appends exactly one audit entry for that user, with
\* outcome "error", that is not the wrong-password entry.
C2_InactiveLoginRefused ==
    [][\A e \in Emails, p \in Passwords :
         (HasEmail(users, e) /\ ~ByEmail(users, e).is_active /\ Login(e, p)) =>
            /\ resp'.status = 401
            /\ resp'.access_token = NoToken
            /\ tokens' = tokens
            /\ AppendsOne
            /\ Last(log').user_email = e
            /\ Last(log').status = "error"
            /\ Last(log') # WrongPasswordEntry(e)]_vars

C2_Witness ==
    /\ Len(log) > 0
    /\ Last(log) = InactiveEntry(DEMO_USER_EMAIL)
    /\ resp = HTTPException(401, InactiveDetail)
    /\ HasEmail(users, DEMO_USER_EMAIL)
    /\ ~ByEmail(users, DEMO_USER_EMAIL).is_active

\* C3: a Login of an active first-login user with the correct temporary
\* password answers needs_password_setup with an empty token, issues no token,
\* leaves last_login as it was and appends nothing to the audit log.
C3_FirstLoginNoToken ==
    [][\A e \in Emails, p \in Passwords :
         (/\ HasEmail(users, e)
          /\ ByEmail(users, e).is_active
          /\ ByEmail(users, e).is_first_login
          /\ verify_password(p, ByEmail(users, e).password_hash)
          /\ Login(e, p)) =>
            /\ resp'.status = 200
            /\ resp'.needs_password_setup
            /\ resp'.access_token = EmptyToken
            /\ tokens' = tokens
            /\ HasEmail(users', e)
            /\ ByEmail(users', e).last_login = ByEmail(users, e).last_login
            /\ log' = log]_vars

C3_Witness ==
    /\ resp.status = 200
    /\ resp.needs_password_setup
    /\ resp.access_token = EmptyToken
    /\ HasEmail(users, resp.email)
    /\ ByEmail(users, resp.email).is_first_login
    /\ ByEmail(users, resp.email).is_active

\* C4: a Login of an active user past first login with the correct password
\* sets last_login to a time not before its previous value, appends exactly
\* one "success" audit entry for that user and returns a token, signed and
\* verifying, whose subject is the user's email.
C4_LoginSucceeds ==
    [][\A e \in Emails, p \in Passwords :
         (/\ HasEmail(users, e)
          /\ ByEmail(users, e).is_active
          /\ ~ByEmail(users, e).is_first_login
          /\ verify_password(p, ByEmail(users, e).password_hash)
          /\ Login(e, p)) =>
            /\ HasEmail(users', e)
            /\ ByEmail(users', e).last_login # NULL
            /\ ByEmail(users, e).last_login # NULL =>
                   ByEmail(users', e).last_login[1] >= ByEmail(users, e).last_login[1]
            /\ AppendsOne
            /\ Last(log').user_email = e
            /\ Last(log').status = "success"
            /\ resp'.status = 200
            /\ resp'.access_token.key = SECRET_KEY
            /\ resp'.access_token.sub = e
            /\ verify_token(resp'.access_token, now').email = e]_vars

C4_Witness ==
    /\ Len(log) > 1
    /\ Last(log).action = "Login successful"
    /\ Last(log).status = "success"
    /\ resp.status = 200
    /\ resp.access_token.key = SECRET_KEY
    /\ resp.access_token.sub = Last(log).user_email
    /\ HasEmail(users, Last(log).user_email)
    /\ ByEmail(users, Last(log).user_email).last_login = <<now>>
    /\ now > 0

\* a step of a route behind Depends(verify_admin_token), called with token t
AdminRoute(t) ==
    \/ AdminDenied(t)
    \/ /\ Admitted(t)
       /\ \/ GetAdminStats(t)
          \/ \E e \in Emails, c \in ContainerIds : CreateUser(t, e, c)
          \/ \E id \in UserIds, c \in ContainerIds : UpdateUser(t, id, c)
          \/ \E id \in UserIds : DeleteUser(t, id)
          \/ \E id \in UserIds : ToggleUserStatus(t, id)
          \/ \E n \in AccountNames, id \in AccountIds : CreateStorageAccount(t, n, id)
          \/ \E id \in AccountIds, n \in AccountNames, a \in BOOLEAN :
                UpdateStorageAccount(t, id, n, a)
          \/ \E id \in AccountIds : DeleteStorageAccount(t, id)
          \/ \E n \in ContainerNames, a \in AccountIds, id \in ContainerIds :
                CreateContainer(t, n, a, id)
          \/ \E id \in ContainerIds : DeleteContainer(t, id)

\* signed by the system, with a subject, and not past its expiry
ValidNow(t) == t.key = SECRET_KEY /\ t.sub # None /\ now <= t.exp
IsAdminNow(e) == \E u \in users : u.email = e /\ u.role = "admin"
PasswordChanged(e) ==
    [user_email |-> e, action |-> "Password changed", status |-> "info",
     details |-> NoDetails]

\* C5: whenever a valid (signed, unexpired) token is presented to an admin
\* route while the user store holds no admin with the token's subject, in
\* particular after update_user took the admin role away from a user whose
\* token was issued while admin, the call fails with 403 and writes nothing.
C5_RoleReadPerCall ==
    [][\A t \in tokens :
         (ValidNow(t) /\ ~IsAdminNow(t.sub) /\ AdminRoute(t)) =>
            /\ resp' = HTTPException(403, "Admin access required")
            /\ UNCHANGED <<users, accounts, containers, log, tokens>>]_vars

\* the admin's token was issued while its role was admin (first entry, on the
\* initial tables), update_user then changed the role, the token has not
\* expired and the last call was refused with 403
C5_Witness ==
    /\ Len(log) = 2
    /\ log[1] = PasswordChanged(DEMO_ADMIN_EMAIL)
    /\ log[2] = [user_email |-> DEMO_ADMIN_EMAIL, action |-> "User updated",
                 status |-> "info", details |-> <<"Updated user", DEMO_ADMIN_EMAIL>>]
    /\ HasEmail(users, DEMO_ADMIN_EMAIL)
    /\ ByEmail(users, DEMO_ADMIN_EMAIL).role # "admin"
    /\ \E t \in tokens : t.sub = DEMO_ADMIN_EMAIL /\ ValidNow(t)
    /\ resp = HTTPException(403, "Admin access required")

Profile(u) ==
    [id |-> u.id, email |-> u.email, role |-> u.role, is_active |-> u.is_active,
     storage_account |-> u.storage_account, container |-> u.container]
OwnActions == {"Login failed", "Login successful", "Password changed"}
\* a step that did what only the admin routes do
AdminEffect ==
    \/ accounts' # accounts
    \/ containers' # containers
    \/ {Profile(u) : u \in users'} # {Profile(u) : u \in users}
    \/ log' # log /\ Last(log').action \notin OwnActions

\* C6: a step of an admin route called with a token that does not verify, or
\* whose subject is not at that moment a user with role admin, answers 401 or
\* 403 and leaves users, storage accounts, containers and the audit log as
\* they were; and every step with the effect of an admin operation is made
\* with a verifying token of a current admin, whom the audit entry names.
C6_AdminGate ==
    [][/\ \A t \in Presented :
            (~(ValidNow(t) /\ IsAdminNow(t.sub)) /\ AdminRoute(t)) =>
               /\ resp'.status \in {401, 403}
               /\ UNCHANGED <<users, accounts, containers, log>>
       /\ AdminEffect =>
            \E t \in tokens :
               /\ ValidNow(t)
               /\ IsAdminNow(t.sub)
               /\ log' # log
               /\ Last(log').user_email = t.sub]_vars

\* an admin created a container, and the last call, made with the verifying
\* token of an existing user who is no admin, was refused with 403
C6_Witness ==
    /\ \E i \in 1..Len(log) : log[i].action = "Container created"
    /\ \E t \in tokens : ValidNow(t) /\ HasEmail(users, t.sub) /\ ~IsAdminNow(t.sub)
    /\ resp = HTTPException(403, "Admin access required")

\* a step of a route behind Depends(verify_token), called with token t
TokenRoute(t) == TokenDenied(t) \/ ListFiles(t)

\* C7 as stated: the token verifies exactly when it is signed, carries a
\* subject and the current time is before its expiry.
C7_VerifiesBeforeExpiry ==
    [][\A t \in Presented :
         TokenRoute(t) =>
            IF t.key = SECRET_KEY /\ t.sub # None /\ now < t.exp
            THEN resp'.status = 200 /\ resp'.email = t.sub
            ELSE resp' = HTTPException(401, "Invalid token")]_vars

\* C7 amended: the token verifies exactly when it is signed, carries a subject
\* and the current time is not after its expiry (at the expiry instant it
\* still verifies); nothing of the user store enters the condition.
C7_VerifiesUntilExpiry ==
    [][\A t \in Presented :
         TokenRoute(t) =>
            IF t.key = SECRET_KEY /\ t.sub # None /\ now <= t.exp
            THEN resp'.status = 200 /\ resp'.email = t.sub
            ELSE resp' = HTTPException(401, "Invalid token")]_vars

\* a token verified for a subject that has no user record any more
C7_Witness ==
    /\ resp.status = 200
    /\ resp.email \in {t.sub : t \in tokens}
    /\ ~HasEmail(users, resp.email)
    /\ \E i \in 1..Len(log) : log[i].action = "User deleted"

C10_FailedCallsKeepUsers ==
    [][users' # users =>
         \A e \in Emails, p \in Passwords :
            /\ ~(resp'.status = 401 /\ Login(e, p))
            /\ ~(resp'.status = 404 /\ SetPassword(e, p))]_vars

\* a login with a wrong password was refused and audited
C10_Witness ==
    /\ Len(log) > 0
    /\ Last(log) = WrongPasswordEntry(DEMO_USER_EMAIL)
    /\ resp = HTTPException(401, "Invalid email or password")
    /\ HasEmail(users, DEMO_USER_EMAIL)
    /\ ByEmail(users, DEMO_USER_EMAIL).last_login # NULL

GenericRefusal == HTTPException(401, "Invalid email or password")

C12_FailedLoginAudited ==
    [][\A e \in Emails, p \in Passwords :
         (resp'.status = 401 /\ HasEmail(users, e) /\ Login(e, p)) =>
            /\ AppendsOne
            /\ Last(log').user_email = e
            /\ Last(log').status = "error"]_vars

\* C18: no step takes the active flag away from a user whose first_login
\* flag is still set.
C18_DeactivatedFromActiveOnly ==
    [][\A u \in users, v \in users' :
         (u.id = v.id /\ u.is_first_login /\ u.is_active) => v.is_active]_vars

\* C20: every user record's role is "user" or "admin".
C20_RoleInEnum == \A u \in users : u.role \in {"user", "admin"}

\* C19: in every step and for every user record that the step keeps (same row
\* id, or same email), is_first_login does not go from false to true, and it
\* goes from true to false only in a SetPassword step for that user's email;
\* the steps are Login, SetPassword, the admin operations on users and the
\* re-run of init_demo_data at startup.
C19_FirstLoginClearedOnce ==
    [][\A u \in users, v \in users' :
         (u.id = v.id \/ u.email = v.email) =>
            /\ ~u.is_first_login => ~v.is_first_login
            /\ (u.is_first_login /\ ~v.is_first_login) =>
                  \E p \in Passwords : SetPassword(u.email, p)]_vars

\* startup ran again (it alone gives the demo user row id 3 with no "User
\* created" or "User updated" entry) while the admin's flag was cleared, and
\* the flag is still cleared
C19_Witness ==
    /\ \E u \in users : u.email = DEMO_USER_EMAIL /\ u.id = 3 /\ u.is_first_login
    /\ \A i \in 1..Len(log) : log[i].action \notin {"User created", "User updated"}
    /\ HasEmail(users, DEMO_ADMIN_EMAIL)
    /\ ~ByEmail(users, DEMO_ADMIN_EMAIL).is_first_login

HasFileId(slot) == uploads[slot].pc \in {"opened", "written"}
TooLarge(slot) == uploads[slot].pc = "read" /\ Len(uploads[slot].content) > UPLOAD_SIZE_LIMIT
BlobNames(bs) == {b.name : b \in bs}

\* C13: an upload refused at the type check or at the size check answers 400
\* and leaves the upload directory, the uploaded_files table and the audit log
\* (and every other table) as they were.
C13_RefusedUploadWritesNothing ==
    [][\A slot \in Slots :
         (\/ /\ uploads[slot].pc = "idle"
             /\ \E n \in IngestNames, c \in IngestTypes :
                   /\ ~type_check(c, n)
                   /\ \E t \in Presented, b \in Contents :
                         UploadBegin(slot, t, n, c, b)
          \/ TooLarge(slot) /\ UploadRead(slot)) =>
            /\ resp'.status = 400
            /\ UNCHANGED <<blobs, files, log, users, accounts, containers>>
            /\ uploads'[slot] = Idle]_vars

\* an upload of an allowed type was refused for its size; nothing is stored
C13_Witness ==
    /\ resp = HTTPException(400, SizeRefusal)
    /\ blobs = {}
    /\ files = {}
    /\ \A i \in 1..Len(log) : log[i].action # "File uploaded"
    /\ uuids = 0

\* C14: an upload of an allowed type whose content exceeds the ceiling is
\* answered with status 413.
C14_TooLargeIs413 ==
    [][\A slot \in Slots :
         (TooLarge(slot) /\ UploadRead(slot)) => resp'.status = 413]_vars

\* the file name ends with ext, letters compared without regard to case
EndsWithIgnoringCase(name, ext) ==
    /\ Len(name) >= Len(ext)
    /\ \A i \in 1..Len(ext) :
          lower_char(name[Len(name) - Len(ext) + i]) = lower_char(ext[i])
Listed(content_type) ==
    content_type \in
        {"text/csv", "application/json", "text/plain", "application/vnd.ms-excel",
         "application/vnd.openxmlformats-officedocument.spreadsheetml.sheet",
         "application/xml", "text/xml"}
ListedExtension(name) ==
    \E ext \in {<<".", "c", "s", "v">>, <<".", "j", "s", "o", "n">>,
                <<".", "t", "x", "t">>, <<".", "x", "l", "s", "x">>,
                <<".", "x", "l", "s">>, <<".", "x", "m", "l">>} :
       EndsWithIgnoringCase(name, ext)

\* C15: an upload passes the type check (the request goes on to read the
\* content) exactly when the declared content type is listed or the file name
\* ends, case-insensitively, with a listed extension; otherwise it is answered
\* 400 with the type message and no request is in progress.
C15_TypeCheckIsOr ==
    [][\A t \in Presented, n \in FileNames, c \in ContentTypes :
         UploadBegin(1, t, n, c, <<0, 0>>) =>
            IF Listed(c) \/ ListedExtension(n)
            THEN /\ uploads'[1].pc = "read"
                 /\ uploads'[1].filename = n
                 /\ uploads'[1].content_type = c
                 /\ resp' = resp
            ELSE /\ resp' = HTTPException(400, TypeRefusal)
                 /\ uploads' = uploads]_vars

\* x.exe declared as text/csv has passed the type check
C15_Witness ==
    /\ uploads[1].pc = "read"
    /\ uploads[1].filename = <<"x", ".", "e", "x", "e">>
    /\ uploads[1].content_type = "text/csv"

\* C16: the ids and stored names given to upload requests in progress and to
\* committed rows are pairwise different, a written blob holds the content of
\* the request that owns its name, and every row has its own blob of the
\* recorded size.
C16_NoCollision ==
    /\ \A a, b \in Slots :
          (a # b /\ HasFileId(a) /\ HasFileId(b)) =>
             /\ uploads[a].file_id # uploads[b].file_id
             /\ uploads[a].stored # uploads[b].stored
    /\ \A a \in Slots, f \in files :
          HasFileId(a) => uploads[a].file_id # f.id /\ uploads[a].stored # f.filename
    /\ \A f, g \in files : (f.id = g.id \/ f.filename = g.filename) => f = g
    /\ \A a \in Slots :
          uploads[a].pc = "written" =>
             [name |-> uploads[a].stored, content |-> uploads[a].content] \in blobs
    /\ \A f \in files :
          \E b \in blobs : b.name = f.filename /\ Len(b.content) = f.file_size
    /\ \A b, c \in blobs : b.name = c.name => b = c

\* two uploads of one user under one client file name are in progress, the
\* later one ahead of the earlier
C16_Witness ==
    /\ uploads[1].pc = "opened"
    /\ uploads[2].pc = "written"
    /\ uploads[1].filename = uploads[2].filename
    /\ uploads[1].email = uploads[2].email

\* C17: the request that passed both checks carries the token's subject and
\* the file as supplied; it creates one blob when the file is opened and no
\* other; its last step adds one row (owner, size, original name, type as
\* carried, status success) whose blob holds the content, appends one
\* "success" audit entry for the owner and returns the row's id with the
\* original file name.
C17_UploadEffect ==
    [][\A slot \in Slots :
         /\ uploads[slot].pc = "idle" =>
               \A n \in IngestNames, c \in IngestTypes :
                  type_check(c, n) =>
                     \A t \in Presented, b \in Contents :
                        UploadBegin(slot, t, n, c, b) =>
                           uploads'[slot] = [pc |-> "read", email |-> t.sub,
                                             filename |-> n, content_type |-> c,
                                             content |-> b]
         /\ (uploads[slot].pc = "read" /\ ~TooLarge(slot) /\ UploadRead(slot)) =>
               /\ Cardinality(blobs') = Cardinality(blobs) + 1
               /\ blobs \subseteq blobs'
               /\ files' = files /\ log' = log
         /\ (uploads[slot].pc = "opened" /\ UploadWrite(slot)) =>
               /\ BlobNames(blobs') = BlobNames(blobs)
               /\ files' = files /\ log' = log
         /\ (uploads[slot].pc = "written" /\ UploadCommit(slot)) =>
               /\ blobs' = blobs
               /\ \E f \in files' :
                     /\ f \notin files
                     /\ files' = files \cup {f}
                     /\ f.user_email = uploads[slot].email
                     /\ f.file_size = Len(uploads[slot].content)
                     /\ f.original_filename = uploads[slot].filename
                     /\ f.content_type = uploads[slot].content_type
                     /\ f.status = "success"
                     /\ [name |-> f.filename, content |-> uploads[slot].content] \in blobs
                     /\ resp'.status = 200
                     /\ resp'.id = f.id
                     /\ resp'.filename = uploads[slot].filename
                     /\ resp'.size = f.file_size
               /\ AppendsOne
               /\ Last(log').user_email = uploads[slot].email
               /\ Last(log').status = "success"]_vars

\* an upload of x.exe declared as text/csv by the demo user has completed
C17_Witness ==
    /\ resp.status = 200
    /\ "filename" \in DOMAIN resp
    /\ resp.filename = <<"x", ".", "e", "x", "e">>
    /\ Len(log) > 0
    /\ Last(log).action = "File uploaded"
    /\ Last(log).user_email = DEMO_USER_EMAIL
    /\ \E f \in files :
          /\ f.id = resp.id
          /\ f.user_email = DEMO_USER_EMAIL
          /\ f.content_type = "text/csv"
          /\ f.filename = <<f.id, ".", "e", "x", "e">>
          /\ \E b \in blobs : b.name = f.filename /\ Len(b.content) = f.file_size

(* ----------------------------- C21 ------------------------------------- *)

\* C21: no two user records share an email, in every state reachable by any
\* interleaving of create_user, update_user and the startup initialisation
\* (with logins, password changes, deletions and toggles in between).
C21_UniqueEmail ==
    \A u \in users : \A v \in users : u.email = v.email => u = v

\* a duplicate was attempted and refused: update_user of one record to the
\* email of another ended in the constraint error, both records are kept
C21_Witness ==
    /\ resp = HTTPException(500, "Internal Server Error")
    /\ Cardinality(users) = MaxUsers
    /\ Cardinality({u.email : u \in users}) = MaxUsers

(* ----------------------------- C22 ------------------------------------- *)

\* C22: the audit log is append-only: every step either leaves the log as it
\* is or adds exactly one entry at its end, so entries are never modified or
\* removed and the earlier log is always a prefix of the later one.
C22_AppendOnly ==
    [][log' # log => AppendsOne]_vars

\* a full log written by three different handlers
C22_Witness ==
    /\ Len(log) = MaxLog
    /\ log[1].action = "Password changed"
    /\ log[2].action = "User created"
    /\ log[3].action = "Login failed"

(* ----------------------------- C23 ------------------------------------- *)

\* C23: in every reachable state every metadata row has a byte size less
\* than or equal to the configured size ceiling; content of exactly the
\* ceiling size is accepted, content one byte larger is refused, and a row is
\* never changed after it is created.
C23_SizeWithinConfigured ==
    [][/\ \A f \in files' : f.file_size <= MAX_FILE_SIZE_MB
       /\ \A slot \in Slots :
            uploads[slot].pc = "read" /\ UploadRead(slot) =>
                (uploads'[slot].pc = "opened"
                    <=> Len(uploads[slot].content) <= MAX_FILE_SIZE_MB)
       /\ files \subseteq files']_vars

(* ----------------------------- C24 ------------------------------------- *)

\* C24: the writes of one request are atomic as a unit: when the audit-entry
\* write of a Login, SetPassword or Ingest call fails, the caller sees an
\* error and the earlier write of the same request (the last_login update,
\* the password overwrite with first_login cleared, the metadata row and the
\* blob) is not left committed.
C24_NoPartialCommit ==
    [][/\ \A e \in Emails :
            LoginAuditFailure(e, DEMO_USER_PASSWORD)
                \/ SetPasswordAuditFailure(e, DEMO_USER_PASSWORD)
            => resp'.status >= 500 /\ users' = users
       /\ \A slot \in Slots :
            uploads[slot].pc = "written" /\ UploadAuditFailure(slot)
            => /\ resp'.status >= 500
               /\ files' = files
               /\ ~\E b \in blobs' : b.name = uploads[slot].stored]_vars

(* ----------------------------- C25 ------------------------------------- *)
\* the step returns a newly issued bearer token whose subject is e
Issued(e) ==
    /\ tokens' # tokens \/ log' # log
    /\ resp'.access_token.key = SECRET_KEY
    /\ resp'.access_token.sub = e
PasswordChangedBefore(l, e) ==
    \E i \in 1..Len(l) : l[i].action = "Password changed" /\ l[i].user_email = e

\* C25 (as stated): no bearer token with subject e is issued before a
\* successful SetPassword call for email e has happened; Login alone never
\* issues a token.
C25_TokenAfterSetPasswordForEmail ==
    [][\A e \in Emails : Issued(e) => PasswordChangedBefore(log', e)]_vars

\* C25 (amended): a bearer token is issued only for a user record whose
\* first_login flag is cleared, which only a successful SetPassword call on
\* that record does: Login issues one only when the flag was already clear
\* before the call, and no token is issued in a behaviour without a successful
\* SetPassword call.  The subject is the record's current email, which
\* update_user may have changed since that call.
C25_TokenAfterPasswordSet ==
    [][\A e \in Emails : Issued(e) =>
            /\ \E u \in users' : u.email = e /\ ~u.is_first_login
            /\ \E i \in 1..Len(log') : log'[i].action = "Password changed"
            /\ Last(log').action = "Login successful" =>
                    \E u \in users : u.email = e /\ ~u.is_first_login]_vars

\* Login has issued a token for an email that never had a SetPassword call:
\* the record set its password under another email and was renamed
C25_Witness ==
    /\ Len(log) > 0
    /\ Last(log).action = "Login successful"
    /\ resp.access_token.key = SECRET_KEY
    /\ resp.access_token.sub = Last(log).user_email
    /\ ~PasswordChangedBefore(log, Last(log).user_email)
    /\ \E u \in users : u.email = Last(log).user_email /\ ~u.is_first_login

(* ----------------------------- C26 ------------------------------------- *)
\* the password given to the most recent SetPassword call for the record (of
\* at most 72 bytes), as kept in the model's digest
PasswordOf(u) == u.password_hash.digest[2]
BearerFor(e) ==
    /\ resp'.status = 200
    /\ resp'.access_token.key = SECRET_KEY
    /\ resp'.access_token.sub = e
LoginCall(e, q) == Login(e, q) \/ LoginTooLong(e, q)

UploadEntryOf(f) ==
    [user_email |-> f.user_email, action |-> "File uploaded", status |-> "success",
     details |-> <<"Uploaded", f.original_filename, ToString(f.file_size), "bytes">>]
RowsHaveBlobs(fs, bs) ==
    \A f \in fs : \E b \in bs : b.name = f.filename /\ Len(b.content) = f.file_size
EntriesHaveRows(l, fs) ==
    \A i \in 1..Len(l) :
        l[i].action = "File uploaded" => \E f \in fs : l[i] = UploadEntryOf(f)

\* C27: Ingest writes the blob, then the row, then the audit entry, and no
\* step deletes a blob or a row: after every step, also in the middle of a
\* request and after a request that failed part-way or was cut off by a
\* restart, every metadata row has its blob and every "File uploaded" audit
\* entry has its metadata row.
C27_IngestOrder ==
    [][/\ RowsHaveBlobs(files', blobs')
       /\ EntriesHaveRows(log', files')
       /\ files \subseteq files'
       /\ BlobNames(blobs) \subseteq BlobNames(blobs')]_vars

\* one upload failed at its write, one was committed and audited, one was
\* committed and failed at its audit entry
C27_Witness ==
    /\ Cardinality(files) = 2
    /\ Cardinality(blobs) = 3
    /\ Cardinality({i \in 1..Len(log) : log[i].action = "File uploaded"}) = 1
    /\ resp.status = 500
    /\ \E b \in blobs : b.content = <<>>

(* ----------------------------- C28 ------------------------------------- *)

\* C28: whenever a Login call returns a bearer token, the user of that email
\* is active in the state the call reads and in the state it leaves, with
\* toggle_user_status and update_user calls interleaved in any order: the
\* active check and the issuance are one step.
C28_ActiveAtIssuance ==
    [][resp'.access_token.key = SECRET_KEY =>
         \A e \in Emails, p \in Passwords :
            Login(e, p) =>
               /\ resp'.access_token.sub = e
               /\ HasEmail(users, e) /\ ByEmail(users, e).is_active
               /\ HasEmail(users', e) /\ ByEmail(users', e).is_active]_vars

\* the admin logs in right after deactivating the demo user
C28_Witness ==
    /\ Len(log) = 3
    /\ log[2].action = "User deactivated"
    /\ log[3].action = "Login successful"
    /\ resp.access_token.key = SECRET_KEY
    /\ resp.access_token.sub = log[3].user_email
    /\ \E u \in users : u.email = DEMO_USER_EMAIL /\ ~u.is_active
    /\ \E u \in users : u.email = log[3].user_email /\ u.is_active

(* ----------------------------- C29 ------------------------------------- *)
\* the audit entries of the toggle_user_status calls on the user of email e
ToggleEntries(e) ==
    SelectSeq(log, LAMBDA x : /\ x.action \in {"User activated", "User deactivated"}
                              /\ x.details[3] = e)

\* C29: after n completed toggle_user_status calls on one user, created
\* active, and no other change to its flag, the user is active exactly when n
\* is even, and the n audit entries alternate, starting with "User
\* deactivated": no toggle is lost, whatever the interleaving of the calls.
C29_ToggleParity ==
    \A u \in users :
        LET es == ToggleEntries(u.email) IN
        /\ u.is_active <=> Len(es) % 2 = 0
        /\ \A k \in 1..Len(es) :
              es[k].action = IF k % 2 = 1 THEN "User deactivated" ELSE "User activated"

\* the demo user was toggled twice and is active again
C29_Witness ==
    /\ Len(ToggleEntries(DEMO_USER_EMAIL)) = 2
    /\ HasEmail(users, DEMO_USER_EMAIL)
    /\ ByEmail(users, DEMO_USER_EMAIL).is_active
    /\ Last(log).action = "User activated"

====
